---- MODULE Spec2Model ----
(***************************************************************************)
(* Model of runtime/settings.go: loading a Config from samp.json or        *)
(* samp.yaml in a directory and overlaying SAMP_* environment variables.   *)
(*                                                                         *)
(* Go strings that the code inspects character by character (json tags,    *)
(* environment variable names and values) are sequences of one-character   *)
(* strings.  A pointer field of Config is a sequence: <<>> is nil, <<v>> a *)
(* pointer to v.  A slice field is the slice itself, <<>> being nil.       *)
(* An error is the sequence of tokens of its message, <<>> being nil.      *)
(***************************************************************************)
EXTENDS Integers, Sequences, FiniteSets, TLC

\* ------------------------------------------------------------------ bounds
\* At most MaxSet environment variables are set at once.
MaxSet == 2

\* LoadEnvironmentVariables is called at most MaxCalls times on one Config.
MaxCalls == 2

\* ----------------------------------------------------------------- strings
Range(s) == {s[i] : i \in 1..Len(s)}

Lower == <<"a", "b", "c", "d", "e", "f", "g", "h", "i", "j", "k", "l", "m", "n", "o", "p", "q", "r", "s", "t", "u", "v", "w", "x", "y", "z">>

Upper == <<"A", "B", "C", "D", "E", "F", "G", "H", "I", "J", "K", "L", "M", "N", "O", "P", "Q", "R", "S", "T", "U", "V", "W", "X", "Y", "Z">>

\* strings.ToUpper on ASCII text.
ToUpperChar(c) ==
  IF \E k \in 1..Len(Lower) : Lower[k] = c
    THEN Upper[CHOOSE k \in 1..Len(Lower) : Lower[k] = c]
    ELSE c

ToUpper(s) == [k \in 1..Len(s) |-> ToUpperChar(s[k])]

\* strings.Split(s, sep)[0]: the text before the first separator, or all of s.
SplitFirst(s, sep) ==
  IF \E k \in 1..Len(s) : s[k] = sep
    THEN SubSeq(s, 1, (CHOOSE k \in 1..Len(s) :
                         s[k] = sep /\ \A j \in 1..(k - 1) : s[j] # sep) - 1)
    ELSE s

Digits == <<"0", "1", "2", "3", "4", "5", "6", "7", "8", "9">>

IsDigit(c) == \E k \in 1..Len(Digits) : Digits[k] = c

DigitVal(c) == (CHOOSE k \in 1..Len(Digits) : Digits[k] = c) - 1

\* The base-10 value of a sequence of digits.
RECURSIVE DecVal(_)
DecVal(s) ==
  IF s = <<>> THEN 0
  ELSE 10 * DecVal(SubSeq(s, 1, Len(s) - 1)) + DigitVal(s[Len(s)])

RECURSIVE Pow(_, _)
Pow(b, n) == IF n = 0 THEN 1 ELSE b * Pow(b, n - 1)

\* ----------------------------------------------------------------- strconv
\* strconv.ParseBool: a fixed table of tokens; any other text is an error and
\* the value returned with the error is false.
ParseBool(str) ==
  IF str \in {<<"1">>, <<"t">>, <<"T">>, <<"T", "R", "U", "E">>,
              <<"t", "r", "u", "e">>, <<"T", "r", "u", "e">>}
    THEN [ok |-> TRUE, val |-> TRUE]
  ELSE IF str \in {<<"0">>, <<"f">>, <<"F">>, <<"F", "A", "L", "S", "E">>,
                   <<"f", "a", "l", "s", "e">>, <<"F", "a", "l", "s", "e">>}
    THEN [ok |-> TRUE, val |-> FALSE]
  ELSE [ok |-> FALSE, val |-> FALSE]

\* strconv.Atoi: an optional sign and one or more decimal digits; the value
\* returned with a syntax error is 0.
Atoi(s) ==
  LET signed == s # <<>> /\ s[1] \in {"+", "-"}
      body   == IF signed THEN Tail(s) ELSE s
  IN  IF body # <<>> /\ \A k \in 1..Len(body) : IsDigit(body[k])
        THEN [ok |-> TRUE,
              val |-> IF signed /\ s[1] = "-" THEN 0 - DecVal(body) ELSE DecVal(body)]
        ELSE [ok |-> FALSE, val |-> 0]

\* A float64 as the exact decimal it was read from: (-1)^neg * num / den.
ZeroFloat == [neg |-> FALSE, num |-> 0, den |-> 1]

\* strconv.ParseFloat(s, 64) on plain decimal text: an optional sign, digits
\* with at most one point, at least one digit.  (Exponents, hexadecimal
\* floats, "inf" and "nan" do not occur in the values the model draws.)
ParseFloat(s) ==
  LET signed == s # <<>> /\ s[1] \in {"+", "-"}
      body   == IF signed THEN Tail(s) ELSE s
      points == {k \in 1..Len(body) : body[k] = "."}
      digits == SelectSeq(body, IsDigit)
      wellformed == /\ Cardinality(points) <= 1
                    /\ digits # <<>>
                    /\ \A k \in 1..Len(body) : IsDigit(body[k]) \/ body[k] = "."
      frac   == IF points = {} THEN 0
                ELSE Len(body) - (CHOOSE k \in points : TRUE)
  IN  IF wellformed
        THEN [ok |-> TRUE,
              val |-> [neg |-> signed /\ s[1] = "-",
                       num |-> DecVal(digits), den |-> Pow(10, frac)]]
        ELSE [ok |-> FALSE, val |-> ZeroFloat]

\* A float32: (-1)^neg * m * 2^e with a 24-bit significand m (or m = 0).
RECURSIVE Normalize(_, _, _)
Normalize(n, d, e) ==
  IF n = 0 THEN [m |-> 0, e |-> 0]
  ELSE IF n < d * Pow(2, 23) THEN Normalize(2 * n, d, e - 1)
  ELSE IF n >= d * Pow(2, 24) THEN Normalize(n, 2 * d, e + 1)
  ELSE LET q == n \div d
           r == n % d
           m == IF 2 * r > d \/ (2 * r = d /\ q % 2 = 1) THEN q + 1 ELSE q
       IN  IF m = Pow(2, 24) THEN [m |-> Pow(2, 23), e |-> e + 1]
           ELSE [m |-> m, e |-> e]

\* The conversion float32(x) of a float64: round to nearest, ties to even.
Float32(x) ==
  LET n == Normalize(x.num, x.den, 0)
  IN  [neg |-> x.neg, m |-> n.m, e |-> n.e]

\* ------------------------------------------------------------------ Config
\* The fields of Config the model carries, in declaration order: the
\* unexported dir, and fields of every type the struct declares, placed as
\* in the struct relative to Plugins and StreamDistance.  json is the value
\* of the field's `json` struct tag.
ConfigFields ==
  <<
    [name |-> "dir", type |-> "*string", exported |-> FALSE,
     json |-> <<>>],
    [name |-> "Version", type |-> "*string", exported |-> TRUE,
     json |-> <<"v", "e", "r", "s", "i", "o", "n", ",", "o", "m", "i", "t", "e", "m", "p", "t", "y">>],
    [name |-> "Gamemodes", type |-> "[]string", exported |-> TRUE,
     json |-> <<"g", "a", "m", "e", "m", "o", "d", "e", "s", ",", "o", "m", "i", "t", "e", "m", "p", "t", "y">>],
    [name |-> "Filterscripts", type |-> "[]string", exported |-> TRUE,
     json |-> <<"f", "i", "l", "t", "e", "r", "s", "c", "r", "i", "p", "t", "s", ",", "o", "m", "i", "t", "e", "m", "p", "t", "y">>],
    [name |-> "Plugins", type |-> "[]runtime.Plugin", exported |-> TRUE,
     json |-> <<"p", "l", "u", "g", "i", "n", "s", ",", "o", "m", "i", "t", "e", "m", "p", "t", "y">>],
    [name |-> "Port", type |-> "*int", exported |-> TRUE,
     json |-> <<"p", "o", "r", "t">>],
    [name |-> "Announce", type |-> "*bool", exported |-> TRUE,
     json |-> <<"a", "n", "n", "o", "u", "n", "c", "e", ",", "o", "m", "i", "t", "e", "m", "p", "t", "y">>],
    [name |-> "StreamDistance", type |-> "*float32", exported |-> TRUE,
     json |-> <<"s", "t", "r", "e", "a", "m", "_", "d", "i", "s", "t", "a", "n", "c", "e", ",", "o", "m", "i", "t", "e", "m", "p", "t", "y">>],
    [name |-> "ChatLogging", type |-> "*bool", exported |-> TRUE,
     json |-> <<"c", "h", "a", "t", "l", "o", "g", "g", "i", "n", "g", ",", "o", "m", "i", "t", "e", "m", "p", "t", "y">>],
    [name |-> "NoSign", type |-> "*string", exported |-> TRUE,
     json |-> <<"n", "o", "s", "i", "g", "n", ",", "o", "m", "i", "t", "e", "m", "p", "t", "y">>],
    [name |-> "MessageHoleLimit", type |-> "*int", exported |-> TRUE,
     json |-> <<"m", "e", "s", "s", "a", "g", "e", "h", "o", "l", "e", "l", "i", "m", "i", "t", ",", "o", "m", "i", "t", "e", "m", "p", "t", "y">>]
  >>

NumField == Len(ConfigFields)

FieldNames == {ConfigFields[i].name : i \in 1..NumField}

\* The name a field has in a settings file: the json tag up to its first comma.
JSONName(f) == SplitFirst(f.json, ",")

\* The environment variable of a field (settings.go line 165).
EnvName(f) == <<"S", "A", "M", "P", "_">> \o ToUpper(JSONName(f))

EnvNames == [i \in 1..NumField |-> EnvName(ConfigFields[i])]

JSONNames == [i \in 1..NumField |-> JSONName(ConfigFields[i])]

\* The indices of the fields reflect can set (exported ones).
Settable == {i \in 1..NumField : ConfigFields[i].exported}

Index(n) == CHOOSE i \in 1..NumField : ConfigFields[i].name = n

\* The zero value of Config: every pointer and slice nil.
ZeroConfig == [n \in FieldNames |-> <<>>]

IsNil(cfg, f) == cfg[f.name] = <<>>

\* ----------------------------------------------------------------- reflect
\* The type of a pointer to a value of the given kind.
PtrTo(kind) ==
  CASE kind = "string"  -> "*string"
    [] kind = "bool"    -> "*bool"
    [] kind = "int"     -> "*int"
    [] kind = "float64" -> "*float64"

Zero(kind) ==
  CASE kind = "string"  -> <<>>
    [] kind = "bool"    -> FALSE
    [] kind = "int"     -> 0
    [] kind = "float64" -> ZeroFloat

\* fieldval.Set(reflect.New(v.Type())) where v is a value of the given kind:
\* reflect panics unless a pointer to that kind is assignable to the field.
SetNew(cfg, f, kind) ==
  IF PtrTo(kind) = f.type
    THEN [panicked |-> FALSE, cfg |-> [cfg EXCEPT ![f.name] = <<Zero(kind)>>]]
    ELSE [panicked |-> TRUE, cfg |-> cfg]

\* The outcome of the loop body for field i: the record, the index the loop
\* goes on with, and whether the body panicked.
Continue(cfg, i) == [cfg |-> cfg, next |-> i + 1, panicked |-> FALSE]

Panic(cfg, i) == [cfg |-> cfg, next |-> i, panicked |-> TRUE]

\* OverlayString with SetString inside the allocation's else branch: a field
\* that was nil is allocated and left empty.
OverlayStringAllocOnly(cfg, i, value) ==
  LET f == ConfigFields[i]
      a == SetNew(cfg, f, "string")
  IN  IF IsNil(cfg, f)
        THEN (IF a.panicked THEN Panic(a.cfg, i) ELSE Continue(a.cfg, i))
        ELSE Continue([cfg EXCEPT ![f.name] = <<value>>], i)

\* case "*string" (lines 173-178).
OverlayString(cfg, i, value) ==
  LET f == ConfigFields[i]
      a == IF IsNil(cfg, f) THEN SetNew(cfg, f, "string")
           ELSE [panicked |-> FALSE, cfg |-> cfg]
  IN  IF a.panicked THEN Panic(a.cfg, i)
      ELSE Continue([a.cfg EXCEPT ![f.name] = <<value>>], i)

\* case "[]string" (lines 180-182): a message is printed, nothing is set.
OverlayStrings(cfg, i, value) == Continue(cfg, i)

\* OverlayBool with a `continue` after the warning, as the integer case has.
OverlayBoolSkips(cfg, i, value) ==
  LET f == ConfigFields[i]
      p == ParseBool(value)
      a == IF IsNil(cfg, f) THEN SetNew(cfg, f, "bool")
           ELSE [panicked |-> FALSE, cfg |-> cfg]
  IN  IF ~p.ok THEN Continue(cfg, i)
      ELSE IF a.panicked THEN Panic(a.cfg, i)
      ELSE Continue([a.cfg EXCEPT ![f.name] = <<p.val>>], i)

\* case "*bool" (lines 184-193): a parse error is only reported.
OverlayBool(cfg, i, value) ==
  LET f == ConfigFields[i]
      valueAsBool == ParseBool(value).val
      a == IF IsNil(cfg, f) THEN SetNew(cfg, f, "bool")
           ELSE [panicked |-> FALSE, cfg |-> cfg]
  IN  IF a.panicked THEN Panic(a.cfg, i)
      ELSE Continue([a.cfg EXCEPT ![f.name] = <<valueAsBool>>], i)

\* OverlayInt that sets only a nil field: the file's value wins.
OverlayIntKeepsFile(cfg, i, value) ==
  LET f == ConfigFields[i]
      p == Atoi(value)
      a == SetNew(cfg, f, "int")
  IN  IF ~p.ok \/ ~IsNil(cfg, f) THEN Continue(cfg, i)
      ELSE IF a.panicked THEN Panic(a.cfg, i)
      ELSE Continue([a.cfg EXCEPT ![f.name] = <<p.val>>], i)

\* OverlayInt without the `continue` after the warning, as the boolean case
\* is: the 0 that Atoi returns with its error is stored.
OverlayIntZeroes(cfg, i, value) ==
  LET f == ConfigFields[i]
      p == Atoi(value)
      a == IF IsNil(cfg, f) THEN SetNew(cfg, f, "int")
           ELSE [panicked |-> FALSE, cfg |-> cfg]
  IN  IF a.panicked THEN Panic(a.cfg, i)
      ELSE Continue([a.cfg EXCEPT ![f.name] = <<p.val>>], i)

\* OverlayInt with `return` in place of `continue` after the warning.
OverlayIntReturns(cfg, i, value) ==
  LET f == ConfigFields[i]
      p == Atoi(value)
      a == IF IsNil(cfg, f) THEN SetNew(cfg, f, "int")
           ELSE [panicked |-> FALSE, cfg |-> cfg]
  IN  IF ~p.ok THEN [cfg |-> cfg, next |-> NumField + 1, panicked |-> FALSE]
      ELSE IF a.panicked THEN Panic(a.cfg, i)
      ELSE Continue([a.cfg EXCEPT ![f.name] = <<p.val>>], i)

\* case "*int" (lines 195-205): a parse error skips the field.
OverlayInt(cfg, i, value) ==
  LET f == ConfigFields[i]
      p == Atoi(value)
      a == IF IsNil(cfg, f) THEN SetNew(cfg, f, "int")
           ELSE [panicked |-> FALSE, cfg |-> cfg]
  IN  IF ~p.ok THEN Continue(cfg, i)
      ELSE IF a.panicked THEN Panic(a.cfg, i)
      ELSE Continue([a.cfg EXCEPT ![f.name] = <<p.val>>], i)

\* case "*float32" (lines 207-217): a parse error skips the field; for a nil
\* field a *float64 is allocated and Set on the *float32 field; SetFloat
\* stores float32(valueAsFloat).
OverlayFloat(cfg, i, value) ==
  LET f == ConfigFields[i]
      p == ParseFloat(value)
      a == IF IsNil(cfg, f) THEN SetNew(cfg, f, "float64")
           ELSE [panicked |-> FALSE, cfg |-> cfg]
  IN  IF ~p.ok THEN Continue(cfg, i)
      ELSE IF a.panicked THEN Panic(a.cfg, i)
      ELSE Continue([a.cfg EXCEPT ![f.name] = <<Float32(p.val)>>], i)

\* The body of the loop for field i (lines 158-220).  env is the process
\* environment, a function from the names of the variables that are set.
OverlayField(cfg, env, i) ==
  LET f    == ConfigFields[i]
      name == EnvNames[i]
  IN  IF ~f.exported THEN Continue(cfg, i)
      ELSE IF name \notin DOMAIN env THEN Continue(cfg, i)
      ELSE CASE f.type = "*string"  -> OverlayString(cfg, i, env[name])
             [] f.type = "[]string" -> OverlayStrings(cfg, i, env[name])
             [] f.type = "*bool"    -> OverlayBool(cfg, i, env[name])
             [] f.type = "*int"     -> OverlayInt(cfg, i, env[name])
             [] f.type = "*float32" -> OverlayFloat(cfg, i, env[name])
             [] OTHER               -> Panic(cfg, i)

\* The loop of LoadEnvironmentVariables from field i on (line 157).
RECURSIVE OverlayFrom(_, _, _)
OverlayFrom(cfg, env, i) ==
  IF i > NumField THEN [cfg |-> cfg, panicked |-> FALSE, at |-> 0]
  ELSE LET r == OverlayField(cfg, env, i)
       IN  IF r.panicked THEN [cfg |-> r.cfg, panicked |-> TRUE, at |-> i]
           ELSE OverlayFrom(r.cfg, env, r.next)

\* cfg.LoadEnvironmentVariables(): the record it leaves, whether it panicked
\* and, if so, at which field.
LoadEnvironmentVariables(cfg, env) == OverlayFrom(cfg, env, 1)

\* ------------------------------------------------------------------ errors
\* errors.New(message).
New(message) == message

\* errors.Wrap(err, message): "message: err".
Wrap(err, message) == message \o <<":">> \o err

\* ----------------------------------------------------------------- loading
JSONFile == "samp.json"

YAMLFile == "samp.yaml"

\* filepath.Join(dir, name): a path is the sequence of its elements.
Join(dir, name) == <<dir, name>>

\* What a path holds: nothing, something that cannot be read, text that does
\* not parse (perr is the parser's message), or a document (doc maps the
\* names of the settings it gives to their values).
Missing == [kind |-> "missing", doc |-> <<>>, perr |-> ""]

Unreadable == [kind |-> "unreadable", doc |-> <<>>, perr |-> ""]

Malformed(perr) == [kind |-> "malformed", doc |-> <<>>, perr |-> perr]

Document(doc) == [kind |-> "doc", doc |-> doc, perr |-> ""]

FileAt(fs, path) == IF path \in DOMAIN fs THEN fs[path] ELSE Missing

\* util.Exists(path).
Exists(fs, path) == FileAt(fs, path).kind # "missing"

\* ioutil.ReadFile(file): the contents or an *os.PathError naming the path.
ReadFile(fs, file) ==
  IF FileAt(fs, file).kind \in {"missing", "unreadable"}
    THEN [contents |-> Missing,
          err |-> <<"open">> \o file \o
                  <<IF FileAt(fs, file).kind = "missing"
                      THEN "no such file or directory" ELSE "permission denied">>]
    ELSE [contents |-> FileAt(fs, file), err |-> <<>>]

\* Decoding one setting into a field of the given type: a pointer to the
\* value (a number narrowed to float32 for *float32), or the slice.
Decode(type, v) ==
  CASE type = "*float32" -> <<Float32(v)>>
    [] type \in {"*string", "*int", "*bool"} -> <<v>>
    [] OTHER -> v

\* json.Unmarshal(contents, &cfg): every exported field whose json name the
\* document gives is set; the others stay nil.
Unmarshal(contents) ==
  IF contents.kind = "malformed"
    THEN [cfg |-> ZeroConfig, err |-> <<contents.perr>>]
    ELSE [cfg |-> [n \in FieldNames |->
                     LET f == ConfigFields[Index(n)]
                         k == JSONNames[Index(n)]
                     IN  IF f.exported /\ k \in DOMAIN contents.doc
                           THEN Decode(f.type, contents.doc[k])
                           ELSE <<>>],
          err |-> <<>>]

\* yaml.Unmarshal (ghodss/yaml): the YAML is converted to JSON and decoded
\* with json.Unmarshal; a conversion error is wrapped by the library.
YAMLUnmarshal(contents) ==
  IF contents.kind = "malformed"
    THEN [cfg |-> ZeroConfig,
          err |-> Wrap(<<contents.perr>>, <<"error converting YAML to JSON">>)]
    ELSE Unmarshal(contents)

\* ConfigFromJSON(file) (lines 116-131).
ConfigFromJSON(fs, file) ==
  LET r == ReadFile(fs, file)
      u == Unmarshal(r.contents)
  IN  IF r.err # <<>>
        THEN [cfg |-> ZeroConfig,
              err |-> Wrap(r.err, <<"failed to read", "samp.json">>)]
      ELSE IF u.err # <<>>
        THEN [cfg |-> u.cfg,
              err |-> Wrap(u.err, <<"failed to unmarshal", "samp.json">>)]
      ELSE [cfg |-> u.cfg, err |-> <<>>]

\* ConfigFromYAML(file) (lines 134-149).
ConfigFromYAML(fs, file) ==
  LET r == ReadFile(fs, file)
      u == YAMLUnmarshal(r.contents)
  IN  IF r.err # <<>>
        THEN [cfg |-> ZeroConfig,
              err |-> Wrap(r.err, <<"failed to read", "samp.json">>)]
      ELSE IF u.err # <<>>
        THEN [cfg |-> u.cfg,
              err |-> Wrap(u.err, <<"failed to unmarshal", "samp.json">>)]
      ELSE [cfg |-> u.cfg, err |-> <<>>]

\* ConfigFromDirectory with the two files looked for in the other order.
ConfigFromDirectoryYAMLFirst(fs, dir) ==
  LET jsonFile == Join(dir, JSONFile)
      yamlFile == Join(dir, YAMLFile)
  IN  IF Exists(fs, yamlFile) THEN ConfigFromYAML(fs, yamlFile)
      ELSE IF Exists(fs, jsonFile) THEN ConfigFromJSON(fs, jsonFile)
      ELSE [cfg |-> ZeroConfig,
            err |-> New(<<"directory does not contain a",
                          "samp.json", "or", "samp.yaml", "file">>)]

\* ConfigFromDirectory(dir) (lines 99-113).
ConfigFromDirectory(fs, dir) ==
  LET jsonFile == Join(dir, JSONFile)
      yamlFile == Join(dir, YAMLFile)
  IN  IF Exists(fs, jsonFile) THEN ConfigFromJSON(fs, jsonFile)
      ELSE IF Exists(fs, yamlFile) THEN ConfigFromYAML(fs, yamlFile)
      ELSE [cfg |-> ZeroConfig,
            err |-> New(<<"directory does not contain a",
                          "samp.json", "or", "samp.yaml", "file">>)]

\* NewConfigFromEnvironment(dir) (lines 83-95).
NewConfigFromEnvironment(fs, env, dir) ==
  LET l == ConfigFromDirectory(fs, dir)
      o == LoadEnvironmentVariables([l.cfg EXCEPT !["dir"] = <<dir>>], env)
  IN  IF l.err # <<>>
        THEN [cfg |-> l.cfg, err |-> l.err, panicked |-> FALSE, at |-> 0]
        ELSE [cfg |-> o.cfg, err |-> <<>>, panicked |-> o.panicked, at |-> o.at]

\* ------------------------------------------------------------------ inputs
\* The values environment variables take: "1" parses as a boolean, an
\* integer and a float; "9999" as an integer and a float; "0.1" only as a
\* float (and is not exact in float32); "yes" as none of them.
EnvValues ==
  {<<"1">>, <<"y", "e", "s">>, <<"9", "9", "9", "9">>, <<"0", ".", "1">>}

SettableEnvNames == {EnvNames[i] : i \in Settable}

\* The environments that set at most k of the fields' variables.
EnvsUpTo(k) ==
  UNION {[S -> EnvValues] :
           S \in {T \in SUBSET SettableEnvNames : Cardinality(T) <= k}}

\* The values a settings file gives a field of each type.
DocValues(type) ==
  CASE type = "*string"          -> {<<"o", "l", "d">>}
    [] type = "[]string"         -> {<<"grandlarc">>}
    [] type = "[]runtime.Plugin" -> {<<"streamer">>}
    [] type = "*int"             -> {7777}
    [] type = "*bool"            -> {TRUE, FALSE}
    [] type = "*float32"         -> {[neg |-> FALSE, num |-> 200, den |-> 1]}

\* The document that gives every setting.
FullDoc ==
  [k \in {JSONNames[i] : i \in Settable} |->
     LET f == ConfigFields[CHOOSE i \in Settable : JSONNames[i] = k]
     IN  CHOOSE v \in DocValues(f.type) : TRUE]

\* The documents a settings file holds: no setting, one setting, or all.
Docs ==
  {<<>>} \cup {FullDoc} \cup
  UNION {{(JSONNames[i] :> v) : v \in DocValues(ConfigFields[i].type)} :
           i \in Settable}

ParseErrors == {"invalid character", "unexpected end of input"}

FileStates ==
  {Missing, Unreadable} \cup {Malformed(p) : p \in ParseErrors}
    \cup {Document(d) : d \in Docs}

Dirs == {"server", "test"}

\* ------------------------------------------------------------------- state
VARIABLES
  dir,     \* the directory the program was given
  fs,      \* the files of that directory, by path
  env,     \* the process environment
  cfg,     \* the Config the caller holds
  err,     \* the error of the last loading call
  before,  \* cfg as it was when the last call began
  op,      \* the last function called
  pc,      \* "start", "loaded", "failed", "overlaid" or "panicked"
  calls,   \* how often LoadEnvironmentVariables has been called on cfg
  panicAt  \* the index of the field at which the last call panicked, or 0

vars == <<dir, fs, env, cfg, err, before, op, pc, calls, panicAt>>

\* The environments of the loading runs: at most one of SAMP_PORT and
\* SAMP_STREAM_DISTANCE is set (the overlay itself is explored under Spec).
LoaderEnvs ==
  {e \in EnvsUpTo(1) :
     DOMAIN e \subseteq {EnvNames[Index("Port")], EnvNames[Index("StreamDistance")]}}

\* A program that calls ConfigFromDirectory or NewConfigFromEnvironment on a
\* directory and may then overlay the environment again.
InitLoader ==
  /\ dir \in Dirs
  /\ fs \in [{Join(dir, JSONFile), Join(dir, YAMLFile)} -> FileStates]
  /\ env \in LoaderEnvs
  /\ cfg = ZeroConfig
  /\ err = <<>>
  /\ before = ZeroConfig
  /\ op = "none"
  /\ pc = "start"
  /\ calls = 0
  /\ panicAt = 0

\* A program that holds the Config loaded from a directory with a well-formed
\* samp.json, before any overlay.
Init ==
  /\ dir = "server"
  /\ \E d \in Docs : fs = (Join(dir, JSONFile) :> Document(d))
  /\ env \in EnvsUpTo(MaxSet)
  /\ cfg = ConfigFromDirectory(fs, dir).cfg
  /\ err = <<>>
  /\ before = cfg
  /\ op = "ConfigFromDirectory"
  /\ pc = "loaded"
  /\ calls = 0
  /\ panicAt = 0

\* cfg, err = ConfigFromDirectory(dir)
CallConfigFromDirectory ==
  /\ pc = "start"
  /\ LET r == ConfigFromDirectory(fs, dir)
     IN  /\ cfg' = r.cfg
         /\ err' = r.err
         /\ pc' = IF r.err = <<>> THEN "loaded" ELSE "failed"
  /\ before' = cfg
  /\ op' = "ConfigFromDirectory"
  /\ UNCHANGED <<dir, fs, env, calls, panicAt>>

\* cfg, err = NewConfigFromEnvironment(dir); a panic leaves the caller's
\* variables unassigned.
CallNewConfigFromEnvironment ==
  /\ pc = "start"
  /\ LET r == NewConfigFromEnvironment(fs, env, dir)
     IN  /\ cfg' = IF r.panicked THEN cfg ELSE r.cfg
         /\ err' = IF r.panicked THEN err ELSE r.err
         /\ pc' = IF r.panicked THEN "panicked"
                  ELSE IF r.err = <<>> THEN "overlaid" ELSE "failed"
         /\ calls' = IF r.err = <<>> THEN 1 ELSE 0
         /\ panicAt' = r.at
  /\ before' = cfg
  /\ op' = "NewConfigFromEnvironment"
  /\ UNCHANGED <<dir, fs, env>>

\* cfg.LoadEnvironmentVariables() on a loaded Config; a panic ends the program.
CallLoadEnvironmentVariables ==
  /\ pc \in {"loaded", "overlaid"}
  /\ calls < MaxCalls
  /\ LET r == LoadEnvironmentVariables(cfg, env)
     IN  /\ cfg' = r.cfg
         /\ pc' = IF r.panicked THEN "panicked" ELSE "overlaid"
         /\ panicAt' = r.at
  /\ before' = cfg
  /\ op' = "LoadEnvironmentVariables"
  /\ calls' = calls + 1
  /\ UNCHANGED <<dir, fs, env, err>>

Next == CallLoadEnvironmentVariables

Spec == Init /\ [][Next]_vars

NextLoader ==
  \/ CallConfigFromDirectory
  \/ CallNewConfigFromEnvironment
  \/ CallLoadEnvironmentVariables

SpecLoader == InitLoader /\ [][NextLoader]_vars

\* -------------------------------------------------------------- properties
Loaded == op = "ConfigFromDirectory"

Overlaid == op = "LoadEnvironmentVariables"

JSONPath == Join(dir, JSONFile)

YAMLPath == Join(dir, YAMLFile)

IsSuffix(s, t) ==
  Len(s) <= Len(t) /\ SubSeq(t, Len(t) - Len(s) + 1, Len(t)) = s

TypeOf(i) == ConfigFields[i].type

NameOf(i) == ConfigFields[i].name

IsSet(i) == EnvNames[i] \in DOMAIN env

ValueOf(i) == env[EnvNames[i]]

SequenceTypes == {"[]string", "[]runtime.Plugin"}

\* The value of field i's variable parses for the field's type.
Parses(i) ==
  CASE TypeOf(i) = "*string"  -> TRUE
    [] TypeOf(i) = "*bool"    -> ParseBool(ValueOf(i)).ok
    [] TypeOf(i) = "*int"     -> Atoi(ValueOf(i)).ok
    [] TypeOf(i) = "*float32" -> ParseFloat(ValueOf(i)).ok
    [] OTHER                  -> FALSE

\* What the value of field i's variable parses to (the raw text for a string).
Parsed(i) ==
  CASE TypeOf(i) = "*string" -> ValueOf(i)
    [] TypeOf(i) = "*bool"   -> ParseBool(ValueOf(i)).val
    [] TypeOf(i) = "*int"    -> Atoi(ValueOf(i)).val

\* C1: JSON precedence.  When samp.json exists, ConfigFromDirectory returns
\* the record and error of decoding samp.json (for a well-formed document:
\* no error and exactly the settings the document gives), and returns the
\* same whatever samp.yaml is; samp.yaml is decoded when samp.json is missing.
C1_JSONPrecedence ==
  Loaded =>
    /\ Exists(fs, JSONPath) =>
         /\ cfg = ConfigFromJSON(fs, JSONPath).cfg
         /\ err = ConfigFromJSON(fs, JSONPath).err
         /\ FileAt(fs, JSONPath).kind = "doc" =>
              /\ err = <<>>
              /\ cfg = Unmarshal(FileAt(fs, JSONPath)).cfg
         /\ \A y \in FileStates :
              LET r == ConfigFromDirectory([fs EXCEPT ![YAMLPath] = y], dir)
              IN  r.cfg = cfg /\ r.err = err
    /\ (~Exists(fs, JSONPath) /\ Exists(fs, YAMLPath)) =>
         /\ cfg = ConfigFromYAML(fs, YAMLPath).cfg
         /\ err = ConfigFromYAML(fs, YAMLPath).err

\* C1 witness: both files are well-formed documents that decode to different
\* records, and the record returned is the one of samp.json.
C1_Witness ==
  /\ Loaded
  /\ FileAt(fs, JSONPath).kind = "doc"
  /\ FileAt(fs, YAMLPath).kind = "doc"
  /\ Unmarshal(FileAt(fs, JSONPath)).cfg # Unmarshal(FileAt(fs, YAMLPath)).cfg
  /\ cfg = Unmarshal(FileAt(fs, JSONPath)).cfg
  /\ cfg # ZeroConfig

\* C2: in a directory with neither samp.json nor samp.yaml, ConfigFromDirectory
\* and NewConfigFromEnvironment fail with an error that names the directory.
C2_NoFileErrorNamesDirectory ==
  (/\ op \in {"ConfigFromDirectory", "NewConfigFromEnvironment"}
   /\ ~Exists(fs, JSONPath)
   /\ ~Exists(fs, YAMLPath)) =>
    /\ pc = "failed"
    /\ err # <<>>
    /\ dir \in Range(err)

\* C3: a malformed settings file fails the load with an error that keeps the
\* parser's error and names the file that failed: samp.json for a malformed
\* samp.json, samp.yaml for a malformed samp.yaml without a samp.json.
C3_MalformedFileIdentified ==
  Loaded =>
    /\ FileAt(fs, JSONPath).kind = "malformed" =>
         /\ pc = "failed"
         /\ IsSuffix(<<FileAt(fs, JSONPath).perr>>, err)
         /\ JSONFile \in Range(err)
    /\ (~Exists(fs, JSONPath) /\ FileAt(fs, YAMLPath).kind = "malformed") =>
         /\ pc = "failed"
         /\ IsSuffix(<<FileAt(fs, YAMLPath).perr>>, err)
         /\ YAMLFile \in Range(err)

\* C4: override precedence.  When LoadEnvironmentVariables has returned,
\* every string, integer and boolean field whose variable is set to a value
\* that parses for its type is present and holds the parsed value (the raw
\* text for a string), whatever the field held before.
C4_OverridePrecedence ==
  (Overlaid /\ pc = "overlaid") =>
    \A i \in Settable :
      (TypeOf(i) \in {"*string", "*int", "*bool"} /\ IsSet(i) /\ Parses(i)) =>
        cfg[NameOf(i)] = <<Parsed(i)>>

\* C4 witness: port 7777 from the file is overridden by SAMP_PORT=9999, and an
\* absent nosign is set from SAMP_NOSIGN.
C4_Witness ==
  /\ Overlaid /\ pc = "overlaid"
  /\ before["Port"] = <<7777>>
  /\ IsSet(Index("Port")) /\ ValueOf(Index("Port")) = <<"9", "9", "9", "9">>
  /\ cfg["Port"] = <<9999>>
  /\ before["NoSign"] = <<>>
  /\ IsSet(Index("NoSign"))
  /\ cfg["NoSign"] = <<ValueOf(Index("NoSign"))>>

\* C5: graceful degradation.  An integer or float field whose variable is
\* set to a value that does not parse is left by LoadEnvironmentVariables as
\* it was before the call: absent stays absent, a value stays that value.
C5_NumericParseFailureSkips ==
  Overlaid =>
    \A i \in Settable :
      (TypeOf(i) \in {"*int", "*float32"} /\ IsSet(i) /\ ~Parses(i)) =>
        cfg[NameOf(i)] = before[NameOf(i)]

\* C5 witness: port and stream_distance come from the file, both variables
\* are set to "yes", and both fields keep the file's values.
C5_Witness ==
  /\ Overlaid /\ pc = "overlaid"
  /\ before["Port"] = <<7777>>
  /\ before["StreamDistance"] # <<>>
  /\ IsSet(Index("Port")) /\ ~Parses(Index("Port"))
  /\ IsSet(Index("StreamDistance")) /\ ~Parses(Index("StreamDistance"))
  /\ cfg["Port"] = <<7777>>
  /\ cfg["StreamDistance"] = before["StreamDistance"]

\* C6: boolean coercion.  When LoadEnvironmentVariables has returned, a
\* boolean field whose variable is set to a value that is no boolean token is
\* present and false, whatever it was before.
C6_BooleanCoercion ==
  (Overlaid /\ pc = "overlaid") =>
    \A i \in Settable :
      (TypeOf(i) = "*bool" /\ IsSet(i) /\ ~Parses(i)) =>
        cfg[NameOf(i)] = <<FALSE>>

\* C6 witness: announce is true in the file, SAMP_ANNOUNCE=yes, and the
\* field is false after the overlay.
C6_Witness ==
  /\ Overlaid /\ pc = "overlaid"
  /\ before["Announce"] = <<TRUE>>
  /\ IsSet(Index("Announce"))
  /\ ValueOf(Index("Announce")) = <<"y", "e", "s">>
  /\ cfg["Announce"] = <<FALSE>>

\* C7: for every sequence field (gamemodes, filterscripts, plugins) whose
\* variable is set, the overlay leaves the field unchanged and is not aborted
\* at that field.
C7_SequenceOverlayNoOp ==
  Overlaid =>
    \A i \in Settable :
      (TypeOf(i) \in SequenceTypes /\ IsSet(i)) =>
        /\ cfg[NameOf(i)] = before[NameOf(i)]
        /\ panicAt # i

\* C8: when SAMP_STREAM_DISTANCE is set to a value that parses as a float,
\* the overlay is not aborted at stream_distance and, when it has returned,
\* the field is present with the parsed value narrowed to float32, whether
\* the field was present or absent before.
C8_FloatOverlay ==
  Overlaid =>
    \A i \in Settable :
      (TypeOf(i) = "*float32" /\ IsSet(i) /\ Parses(i)) =>
        /\ panicAt # i
        /\ pc = "overlaid" =>
             cfg[NameOf(i)] = <<Float32(ParseFloat(ValueOf(i)).val)>>

\* C9: idempotence.  A second LoadEnvironmentVariables under the same
\* environment returns and leaves the record as the first call left it.
C9_Idempotent ==
  (Overlaid /\ calls >= 2) => (pc = "overlaid" /\ cfg = before)

\* C9 witness: two calls have been made, the first changed the loaded record
\* and the second left it as it was.
C9_Witness ==
  /\ Overlaid /\ calls = 2 /\ pc = "overlaid"
  /\ cfg # ConfigFromDirectory(fs, dir).cfg
  /\ cfg = before

\* C10: a coercion failure at a boolean, integer or float field never stops
\* the loop.  The call does not abort at that field; every other field ends
\* as it would have with the failing variable unset, and the call panics or
\* returns as it would have; when it returns, every later field whose
\* variable is unset is untouched and every later string, integer or boolean
\* field whose variable is set and parses holds the parsed value.
C10_CoercionFailureDoesNotStopLoop ==
  Overlaid =>
    \A i \in Settable :
      (TypeOf(i) \in {"*bool", "*int", "*float32"} /\ IsSet(i) /\ ~Parses(i)) =>
        /\ panicAt # i
        /\ LET without == [n \in DOMAIN env \ {EnvNames[i]} |-> env[n]]
               r == LoadEnvironmentVariables(before, without)
           IN  /\ r.panicked = (pc = "panicked")
               /\ r.at = panicAt
               /\ \A j \in Settable \ {i} : cfg[NameOf(j)] = r.cfg[NameOf(j)]
        /\ pc = "overlaid" =>
             \A j \in Settable :
               j > i =>
                 /\ ~IsSet(j) => cfg[NameOf(j)] = before[NameOf(j)]
                 /\ (/\ IsSet(j)
                     /\ TypeOf(j) \in {"*string", "*int", "*bool"}
                     /\ Parses(j)) => cfg[NameOf(j)] = <<Parsed(j)>>

\* C10 witness: SAMP_PORT=yes fails to parse, and the later nosign, absent
\* before, is set from SAMP_NOSIGN; messageholelimit, unset, is untouched.
C10_Witness ==
  /\ Overlaid /\ pc = "overlaid"
  /\ IsSet(Index("Port")) /\ ~Parses(Index("Port"))
  /\ cfg["Port"] = before["Port"]
  /\ before["NoSign"] = <<>>
  /\ IsSet(Index("NoSign"))
  /\ cfg["NoSign"] = <<ValueOf(Index("NoSign"))>>
  /\ ~IsSet(Index("MessageHoleLimit"))
  /\ cfg["MessageHoleLimit"] = before["MessageHoleLimit"]

====
